---- MODULE Spec2Model ----
(***************************************************************************)
(* WasbHook (airflow/providers/microsoft/azure/hooks/wasb.py): a facade    *)
(* over the legacy azure-storage BlockBlobService client.  The blob store  *)
(* and the local file system are the environment the hook talks to; every  *)
(* hook method is one action, except delete_file, which is cut at its      *)
(* store accesses (lookup, then one delete per loop iteration) so that     *)
(* another client of the store can be interleaved with it (SpecConc).      *)
(***************************************************************************)
EXTENDS Integers, Sequences, FiniteSets, TLC

\* ---------------------------------------------------------------- bounds
MaxBlobs == 3       \* blobs the store holds at most
MaxCap == 1         \* largest num_results passed to get_blobs_list

\* ------------------------------------------------------------ input sets
\* Blob names are sequences of character codes, so that "starts with" and
\* the service's lexicographic listing order are computed, not assumed.
Containers == {"c1", "c2"}
BlobNames == {<<1>>, <<1, 2>>, <<2>>}
NamesIn(c) == IF c = "c1" THEN BlobNames ELSE {<<1>>}
Prefixes == {<<>>, <<1>>}
Data == {"hello"}
Paths == {"f1"}
ConnIds == {"wasb_default", "unknown", "malformed"}
Faults == {"AzureHttpError"}
KwargSets == {{}, {"timeout"}, {"delete_snapshots"}, {"num_results"}}

Refs == {r \in Containers \X BlobNames : r[2] \in NamesIn(r[1])}
Absent == "<absent>"

VARIABLES
    hook,             \* "none" | "ready" | "failed": did __init__ return
    connection,       \* self.connection: handle id, 0 before construction
    store,            \* the service: Refs -> content or Absent
    pc,               \* "idle" | "deleting" (inside delete_file's loop)
    call,             \* the method call in progress / last finished
    blobs_to_delete,  \* delete_file's local list
    idx,              \* position of delete_file's for loop (1-based)
    events,           \* SDK calls and log records of the current call
    result,           \* what the current/last call returned or raised
    store0,           \* history: the store when the call started
    live,             \* history: refs uploaded and not deleted since
    allOk             \* history: every call so far returned normally

vars == <<hook, connection, store, pc, call, blobs_to_delete,
          idx, events, result, store0, live, allOk>>

\* ------------------------------------------------------- results, events
Return(v) == [status |-> "return", type |-> "", value |-> v]
Raise(t, v) == [status |-> "raise", type |-> t, value |-> v]
NoneValue == "None"

Request(prim, c, n, nres, snap, tmo, via, outcome) ==
    [kind |-> "request", prim |-> prim, container |-> c, name |-> n,
     num_results |-> nres, delete_snapshots |-> snap, timeout |-> tmo,
     via |-> via, outcome |-> outcome]

LogInfo(n) ==
    [kind |-> "log", prim |-> "Deleting blob: %s", container |-> "", name |-> n,
     num_results |-> 0, delete_snapshots |-> "", timeout |-> FALSE,
     via |-> 0, outcome |-> "ok"]

Call(op, c, n) ==
    [op |-> op, container |-> c, name |-> n, is_prefix |-> FALSE,
     ignore_if_missing |-> FALSE, kwargs |-> {}, file_path |-> "",
     string_data |-> "", num_results |-> 0]

\* ------------------------------------------------------ the SDK's service
StartsWith(n, p) == Len(p) <= Len(n) /\ SubSeq(n, 1, Len(p)) = p

RECURSIVE LexLess(_, _)
LexLess(a, b) ==
    IF a = <<>> THEN b # <<>>
    ELSE IF b = <<>> THEN FALSE
    ELSE IF Head(a) = Head(b) THEN LexLess(Tail(a), Tail(b))
    ELSE Head(a) < Head(b)

RECURSIVE Sorted(_)
Sorted(S) ==
    IF S = {} THEN <<>>
    ELSE LET m == CHOOSE x \in S : \A y \in S \ {x} : LexLess(x, y)
         IN <<m>> \o Sorted(S \ {m})

Take(s, k) == IF k = 0 \/ k >= Len(s) THEN s ELSE SubSeq(s, 1, k)

\* BlockBlobService.exists(container, blob)
sdk_exists(st, c, n) == <<c, n>> \in Refs /\ st[<<c, n>>] # Absent

\* BlockBlobService.list_blobs(container, prefix, num_results): the names
\* under the prefix in the service's order, at most num_results of them
\* (num_results = 0 stands for None, no cap).
sdk_list_blobs(st, c, p, nres) ==
    Take(Sorted({n \in NamesIn(c) : st[<<c, n>>] # Absent /\ StartsWith(n, p)}), nres)

\* Keyword arguments list_blobs / delete_blob accept; any other keyword, or
\* one given twice, is a TypeError raised before the service is contacted.
ListKwargs == {"num_results", "include", "delimiter", "marker", "timeout"}
DeleteKwargs == {"snapshot", "lease_id", "delete_snapshots", "timeout"}

CountBlobs(st) == Cardinality({r \in Refs : st[r] # Absent})

\* ------------------------------------------------------- history updates
Settle(r, liveIfOk) ==
    /\ result' = r
    /\ allOk' = (allOk /\ r.status = "return")
    /\ live' = IF allOk /\ r.status = "return" THEN liveIfOk ELSE {}

\* ------------------------------------------------------------------ Init
Init ==
    /\ hook = "none"
    /\ connection = 0
    /\ store = [r \in Refs |-> Absent]
    /\ pc = "idle"
    /\ call = Call("", "", <<>>)
    /\ blobs_to_delete = <<>>
    /\ idx = 0
    /\ events = <<>>
    /\ result = Return(NoneValue)
    /\ store0 = [r \in Refs |-> Absent]
    /\ live = {}
    /\ allOk = TRUE

\* ---------------------------------------------------------- construction
\* BlockBlobService(...): a new client object, distinct from the one held.
NewHandle(h) == h + 1

\* WasbHook.__init__: self.connection = self.get_conn().  get_connection
\* raises for an unknown id, BlockBlobService(...) for a malformed profile;
\* either way __init__ raises and no hook object is returned.
WasbHook_init(conn_id) ==
    /\ hook = "none"
    /\ UNCHANGED <<store, pc, call, blobs_to_delete, idx, events,
                   store0, live, allOk>>
    /\ IF conn_id = "unknown"
       THEN /\ hook' = "failed"
            /\ result' = Raise("AirflowNotFoundException", conn_id)
            /\ UNCHANGED connection
       ELSE IF conn_id = "malformed"
       THEN /\ hook' = "failed"
            /\ result' = Raise("ValueError", conn_id)
            /\ UNCHANGED connection
       ELSE /\ hook' = "ready"
            /\ connection' = NewHandle(connection)
            /\ result' = Return(NoneValue)

\* Mutant: get_conn caches what it builds in self.connection.
get_conn_caching ==
    /\ hook = "ready" /\ pc = "idle"
    /\ connection' = NewHandle(connection)
    /\ call' = Call("get_conn", "", <<>>)
    /\ events' = <<>>
    /\ store0' = store
    /\ result' = Return(NewHandle(connection))
    /\ UNCHANGED <<hook, store, pc, blobs_to_delete, idx, live, allOk>>

\* WasbHook.get_conn called by a user of the hook: builds and returns a new
\* BlockBlobService; self.connection is not assigned.
get_conn ==
    /\ hook = "ready" /\ pc = "idle"
    /\ call' = Call("get_conn", "", <<>>)
    /\ events' = <<>>
    /\ store0' = store
    /\ Settle(Return(NewHandle(connection)), live)
    /\ UNCHANGED <<hook, connection, store, pc, blobs_to_delete, idx>>

\* What every facade method shares: it runs on a constructed hook, outside
\* any other call (the hook is synchronous), and leaves the handle alone.
Finish(c0, evs, r, liveIfOk) ==
    /\ hook = "ready" /\ pc = "idle"
    /\ call' = c0
    /\ events' = evs
    /\ store0' = store
    /\ Settle(r, liveIfOk)
    /\ UNCHANGED <<hook, connection, pc, blobs_to_delete, idx>>

Outcomes == {"ok"} \cup Faults

\* ------------------------------------------------------------ read-only
\* Mutant: a failed exists() is tried once more.
check_for_blob_retry(c, n) ==
    \E f \in Outcomes, g \in Outcomes :
        LET first == Request("exists", c, n, 0, "", FALSE, connection, f)
            again == Request("exists", c, n, 0, "", FALSE, connection, g)
        IN /\ UNCHANGED store
           /\ hook = "ready" /\ pc = "idle"
           /\ call' = Call("check_for_blob", c, n)
           /\ events' = IF f = "ok" THEN <<first>> ELSE <<first, again>>
           /\ store0' = store
           /\ Settle(IF f = "ok" \/ g = "ok" THEN Return(sdk_exists(store, c, n))
                     ELSE Raise(g, n), live)
           /\ UNCHANGED <<hook, connection, pc, blobs_to_delete, idx>>

\* check_for_blob: return self.connection.exists(container_name, blob_name)
check_for_blob(c, n) ==
    \E f \in Outcomes :
        /\ Finish(Call("check_for_blob", c, n),
                  <<Request("exists", c, n, 0, "", FALSE, connection, f)>>,
                  IF f = "ok" THEN Return(sdk_exists(store, c, n)) ELSE Raise(f, n),
                  live)
        /\ UNCHANGED store

\* Mutant: off by one in the emptiness test.
PrefixFound_more(matches) == Len(matches) > 1

\* The value check_for_prefix computes from the listing it asked for:
\* len(list(matches)) > 0.
PrefixFound(matches) == Len(matches) > 0

\* The cap check_for_prefix asks the listing for: num_results=1.
PrefixCap == 1

\* check_for_prefix: list_blobs(container_name, prefix, num_results=1)
check_for_prefix(c, p) ==
    \E f \in Outcomes :
        /\ Finish(Call("check_for_prefix", c, p),
                  <<Request("list_blobs", c, p, PrefixCap, "", FALSE, connection, f)>>,
                  IF f = "ok"
                  THEN Return(PrefixFound(sdk_list_blobs(store, c, p, PrefixCap)))
                  ELSE Raise(f, p),
                  live)
        /\ UNCHANGED store

\* get_blobs_list: return self.connection.list_blobs(container_name, prefix,
\* **kwargs); the only keyword modelled is num_results (0: not given).
get_blobs_list(c, p, nres) ==
    \E f \in Outcomes :
        /\ Finish([Call("get_blobs_list", c, p) EXCEPT !.num_results = nres],
                  <<Request("list_blobs", c, p, nres, "", FALSE, connection, f)>>,
                  IF f = "ok" THEN Return(sdk_list_blobs(store, c, p, nres)) ELSE Raise(f, p),
                  live)
        /\ UNCHANGED store

\* read_file: return self.connection.get_blob_to_text(...).content
read_file(c, n) ==
    \E f \in Outcomes :
        LET out == IF f # "ok" THEN f
                   ELSE IF ~sdk_exists(store, c, n) THEN "AzureMissingResourceHttpError"
                   ELSE "ok"
        IN /\ Finish(Call("read_file", c, n),
                     <<Request("get_blob_to_text", c, n, 0, "", FALSE, connection, out)>>,
                     IF out = "ok" THEN Return(store[<<c, n>>]) ELSE Raise(out, n),
                     live)
           /\ UNCHANGED store

\* get_file: return self.connection.get_blob_to_path(container, blob, path).
\* The local file written is outside the hook's state.
get_file(path, c, n) ==
    \E f \in Outcomes :
        LET out == IF f # "ok" THEN f
                   ELSE IF ~sdk_exists(store, c, n) THEN "AzureMissingResourceHttpError"
                   ELSE "ok"
        IN /\ Finish([Call("get_file", c, n) EXCEPT !.file_path = path],
                     <<Request("get_blob_to_path", c, n, 0, "", FALSE, connection, out)>>,
                     IF out = "ok" THEN Return(store[<<c, n>>]) ELSE Raise(out, n),
                     live)
           /\ UNCHANGED store

\* ---------------------------------------------------------------- uploads
\* The store is capped at MaxBlobs blobs: an upload either overwrites a blob
\* or finds room.
HasRoom(c, n) == sdk_exists(store, c, n) \/ CountBlobs(store) < MaxBlobs

\* Mutant: the SDK's error is caught and re-raised as an AirflowException.
load_file_wrapped(path, content, c, n) ==
    \E f \in Outcomes :
        LET out == IF content = Absent THEN "FileNotFoundError" ELSE f
        IN /\ sdk_exists(store, c, n) \/ CountBlobs(store) < MaxBlobs
           /\ hook = "ready" /\ pc = "idle"
           /\ call' = [Call("load_file", c, n) EXCEPT !.file_path = path]
           /\ events' = <<Request("create_blob_from_path", c, n, 0, "", FALSE,
                                  connection, out)>>
           /\ store0' = store
           /\ Settle(IF out = "ok" THEN Return(NoneValue)
                     ELSE Raise("AirflowException", n), live \cup {<<c, n>>})
           /\ store' = IF out = "ok" THEN [store EXCEPT ![<<c, n>>] = content] ELSE store
           /\ UNCHANGED <<hook, connection, pc, blobs_to_delete, idx>>

\* load_file: self.connection.create_blob_from_path(container, blob, path).
\* The SDK reads the local file first; what is at the path (a content, or
\* nothing: an I/O error) is an input of the call.
load_file(path, content, c, n) ==
    \E f \in Outcomes :
        LET out == IF content = Absent THEN "FileNotFoundError" ELSE f
        IN /\ HasRoom(c, n)
           /\ Finish([Call("load_file", c, n) EXCEPT !.file_path = path],
                     <<Request("create_blob_from_path", c, n, 0, "", FALSE, connection, out)>>,
                     IF out = "ok" THEN Return(NoneValue) ELSE Raise(out, n),
                     live \cup {<<c, n>>})
           /\ store' = IF out = "ok" THEN [store EXCEPT ![<<c, n>>] = content] ELSE store

\* load_string: self.connection.create_blob_from_text(container, blob, data)
load_string(data, c, n) ==
    \E f \in Outcomes :
        /\ HasRoom(c, n)
        /\ Finish([Call("load_string", c, n) EXCEPT !.string_data = data],
                  <<Request("create_blob_from_text", c, n, 0, "", FALSE, connection, f)>>,
                  IF f = "ok" THEN Return(NoneValue) ELSE Raise(f, n),
                  live \cup {<<c, n>>})
        /\ store' = IF f = "ok" THEN [store EXCEPT ![<<c, n>>] = data] ELSE store

\* ------------------------------------------------------------ delete_file
Pending == [status |-> "pending", type |-> "", value |-> NoneValue]

\* num_results as delete_file's **kwargs hand it to list_blobs (0: not given)
LookupCap(kwargs) == IF "num_results" \in kwargs THEN 1 ELSE 0

\* Mutant: the prefix listing is asked for one entry, as check_for_prefix does.
BlobsToDelete_first(st, c, n, is_prefix, kwargs) ==
    IF is_prefix THEN sdk_list_blobs(st, c, n, 1)
    ELSE IF sdk_exists(st, c, n) THEN <<n>>
    ELSE <<>>

\* Mutant: the elif branch is lost, a single blob is never found.
BlobsToDelete_noelif(st, c, n, is_prefix, kwargs) ==
    IF is_prefix THEN sdk_list_blobs(st, c, n, LookupCap(kwargs))
    ELSE <<>>

\* Lines 210-217: the deletion set, in listing order for a prefix.
BlobsToDelete(st, c, n, is_prefix, kwargs) ==
    IF is_prefix THEN sdk_list_blobs(st, c, n, LookupCap(kwargs))
    ELSE IF sdk_exists(st, c, n) THEN <<n>>
    ELSE <<>>

\* Mutant: ignore_if_missing is not consulted.
NotFound_always(ignore_if_missing, names) == Len(names) = 0

\* Line 219: the condition under which delete_file raises AirflowException.
NotFound(ignore_if_missing, names) == ~ignore_if_missing /\ Len(names) = 0

\* Mutant: the log record is written after the delete.
StepEvents_logAfter(uri, reqs) == reqs \o <<LogInfo(uri)>>

\* What one loop iteration emits, in order: the log record of line 223,
\* then the delete_blob call of line 224 (absent when the call itself is a
\* TypeError).
StepEvents(uri, reqs) == <<LogInfo(uri)>> \o reqs

\* Mutant: the failure is reported as the hook's own "not deleted" error.
LoopError_wrapped(out, uri) == Raise("AirflowException", uri)

\* What the caller gets when the delete_blob of line 224 fails for blob uri:
\* the loop has no try/except, so that very error.
LoopError(out, uri) == Raise(out, uri)

\* delete_snapshots as line 224 passes it.
SnapshotMode == "include"

\* The refs a successful delete_file(c, n, is_prefix) is a deletion of.
Covered(c, n, is_prefix) ==
    {r \in Refs : r[1] = c /\ IF is_prefix THEN StartsWith(r[2], n) ELSE r[2] = n}

\* delete_file up to the loop: the lookup (one store access) and the check
\* of line 219.  check_for_blob is called without the caller's kwargs.
delete_file(c, n, is_prefix, ignore_if_missing, kwargs) ==
    \E f \in Outcomes :
        LET typeErr == is_prefix /\ ~(kwargs \subseteq ListKwargs)
            out == IF typeErr THEN "TypeError" ELSE f
            req == IF is_prefix
                   THEN Request("list_blobs", c, n, LookupCap(kwargs), "",
                                "timeout" \in kwargs, connection, out)
                   ELSE Request("exists", c, n, 0, "", FALSE, connection, out)
            names == BlobsToDelete(store, c, n, is_prefix, kwargs)
        IN /\ hook = "ready" /\ pc = "idle"
           /\ call' = [Call("delete_file", c, n) EXCEPT !.is_prefix = is_prefix,
                           !.ignore_if_missing = ignore_if_missing, !.kwargs = kwargs]
           /\ events' = IF typeErr THEN <<>> ELSE <<req>>
           /\ store0' = store
           /\ UNCHANGED <<hook, connection, store>>
           /\ IF out # "ok"
              THEN /\ pc' = "idle" /\ blobs_to_delete' = <<>> /\ idx' = 0
                   /\ Settle(Raise(out, n), live)
              ELSE IF NotFound(ignore_if_missing, names)
              THEN /\ pc' = "idle" /\ blobs_to_delete' = names /\ idx' = 0
                   /\ Settle(Raise("AirflowException", n), live)
              ELSE IF Len(names) = 0
              THEN /\ pc' = "idle" /\ blobs_to_delete' = names /\ idx' = 0
                   /\ Settle(Return(NoneValue), live \ Covered(c, n, is_prefix))
              ELSE /\ pc' = "deleting" /\ blobs_to_delete' = names /\ idx' = 1
                   /\ result' = Pending
                   /\ UNCHANGED <<live, allOk>>

\* One iteration of the loop of lines 222-224: log, then delete_blob with
\* the caller's kwargs.  The service answers a delete of a blob that is not
\* there with AzureMissingResourceHttpError.  Nothing is caught.
delete_file_step ==
    \E f \in Outcomes :
        LET c == call.container
            uri == blobs_to_delete[idx]
            typeErr == "delete_snapshots" \in call.kwargs
                       \/ ~(call.kwargs \subseteq DeleteKwargs)
            out == IF typeErr THEN "TypeError"
                   ELSE IF f # "ok" THEN f
                   ELSE IF ~sdk_exists(store, c, uri) THEN "AzureMissingResourceHttpError"
                   ELSE "ok"
            req == Request("delete_blob", c, uri, 0, SnapshotMode,
                           "timeout" \in call.kwargs, connection, out)
        IN /\ pc = "deleting"
           /\ events' = events \o StepEvents(uri, IF typeErr THEN <<>> ELSE <<req>>)
           /\ store' = IF out = "ok" THEN [store EXCEPT ![<<c, uri>>] = Absent] ELSE store
           /\ UNCHANGED <<hook, connection, call, blobs_to_delete, store0>>
           /\ IF out # "ok"
              THEN /\ pc' = "idle" /\ idx' = idx
                   /\ Settle(LoopError(out, uri), live)
              ELSE IF idx = Len(blobs_to_delete)
              THEN /\ pc' = "idle" /\ idx' = idx
                   /\ Settle(Return(NoneValue),
                             live \ Covered(c, call.name, call.is_prefix))
              ELSE /\ idx' = idx + 1
                   /\ UNCHANGED <<pc, result, live, allOk>>

\* ------------------------------------------ another client of the store
other_delete(r) ==
    /\ hook = "ready"
    /\ store[r] # Absent
    /\ store' = [store EXCEPT ![r] = Absent]
    /\ UNCHANGED <<hook, connection, pc, call, blobs_to_delete,
                   idx, events, result, store0, live, allOk>>

other_upload(r, d) ==
    /\ hook = "ready"
    /\ store[r] = Absent /\ CountBlobs(store) < MaxBlobs
    /\ store' = [store EXCEPT ![r] = d]
    /\ UNCHANGED <<hook, connection, pc, call, blobs_to_delete,
                   idx, events, result, store0, live, allOk>>

Next ==
    \/ \E id \in ConnIds : WasbHook_init(id)
    \/ get_conn
    \/ \E r \in Refs : check_for_blob(r[1], r[2])
    \/ \E c \in Containers, p \in Prefixes : check_for_prefix(c, p)
    \/ \E c \in Containers, p \in Prefixes, k \in 0..MaxCap : get_blobs_list(c, p, k)
    \/ \E r \in Refs : read_file(r[1], r[2])
    \/ \E path \in Paths, r \in Refs : get_file(path, r[1], r[2])
    \/ \E path \in Paths, d \in Data \cup {Absent}, r \in Refs : load_file(path, d, r[1], r[2])
    \/ \E d \in Data, r \in Refs : load_string(d, r[1], r[2])
    \/ \E r \in Refs, ign \in BOOLEAN, kw \in KwargSets :
           delete_file(r[1], r[2], FALSE, ign, kw)
    \/ \E c \in Containers, p \in Prefixes, ign \in BOOLEAN, kw \in KwargSets :
           delete_file(c, p, TRUE, ign, kw)
    \/ delete_file_step

NextConc ==
    \/ \E id \in ConnIds : WasbHook_init(id)
    \/ \E r \in Refs, ign \in BOOLEAN, kw \in KwargSets :
           delete_file(r[1], r[2], FALSE, ign, kw)
    \/ \E c \in Containers, p \in Prefixes, ign \in BOOLEAN, kw \in KwargSets :
           delete_file(c, p, TRUE, ign, kw)
    \/ delete_file_step
    \/ \E r \in Refs : other_delete(r)
    \/ \E r \in Refs, d \in Data : other_upload(r, d)

Spec == Init /\ [][Next]_vars

SpecConc == Init /\ [][NextConc]_vars

\* ================================================================ claims
Returned(op) == pc = "idle" /\ call.op = op

\* The blobs of the store the call started on that its target covers.
Targeted == {r \in Covered(call.container, call.name, call.is_prefix) : store0[r] # Absent}

LookupOk == Len(events) >= 1 /\ events[1].kind = "request" /\ events[1].outcome = "ok"

DeleteRequests == SelectSeq(events, LAMBDA e : e.kind = "request" /\ e.prim = "delete_blob")

\* C1: a delete_file whose lookup finds nothing to delete raises
\* AirflowException naming blob_name when ignore_if_missing is false; when it
\* is true it returns normally, issues no delete request and leaves the
\* store as it was.
C1_MissingTarget ==
    (Returned("delete_file") /\ LookupOk /\ Targeted = {}) =>
        /\ Len(DeleteRequests) = 0
        /\ store = store0
        /\ IF call.ignore_if_missing
           THEN result.status = "return"
           ELSE /\ result.status = "raise"
                /\ result.type = "AirflowException"
                /\ result.value = call.name

C1_Witness ==
    /\ Returned("delete_file") /\ LookupOk /\ Targeted = {}
    /\ call.is_prefix /\ ~call.ignore_if_missing
    /\ result.type = "AirflowException"
    /\ \E r \in Refs : store[r] # Absent

C3_PartialFailure ==
    (Returned("delete_file") /\ result.status = "raise" /\ idx >= 1) =>
        LET c == call.container
            last == events[Len(events)]
        IN /\ \A i \in 1..(idx - 1) : store[<<c, blobs_to_delete[i]>>] = Absent
           /\ \A i \in (idx + 1)..Len(blobs_to_delete) :
                  /\ store[<<c, blobs_to_delete[i]>>] # Absent
                  /\ \A j \in DOMAIN DeleteRequests :
                         DeleteRequests[j].name # blobs_to_delete[i]
           /\ Len(DeleteRequests) <= idx
           /\ result.value = blobs_to_delete[idx]
           /\ last.kind = "request" =>
                  /\ last.prim = "delete_blob" /\ last.name = blobs_to_delete[idx]
                  /\ result.type = last.outcome

C3_Witness ==
    /\ Returned("delete_file") /\ result.status = "raise"
    /\ idx = 2 /\ Len(blobs_to_delete) = 3
    /\ result.type \in Faults
\* C4: while every call so far has returned normally, check_for_blob returns
\* True for exactly the references that were uploaded and not deleted since
\* (live): a blob is stored iff it is live, and a finished check_for_blob
\* returned that value.
C4_ExistsIffLive ==
    (hook = "ready" /\ pc = "idle" /\ allOk) =>
        /\ \A r \in Refs : sdk_exists(store, r[1], r[2]) = (r \in live)
        /\ call.op = "check_for_blob" =>
               result.value = (<<call.container, call.name>> \in live)

C4_Witness ==
    /\ Returned("delete_file") /\ allOk
    /\ ~call.is_prefix /\ ~call.ignore_if_missing
    /\ ~sdk_exists(store, call.container, call.name)
    /\ <<call.container, call.name>> \notin live
    /\ live # {}

\* C5: check_for_prefix is True iff get_blobs_list on the same container and
\* prefix is non-empty, whatever cap (or none) the listing is given; and
\* check_for_prefix asks for its listing once, with num_results=1.
C5_PrefixIffListing ==
    (Returned("check_for_prefix") /\ result.status = "return") =>
        /\ \A k \in 0..MaxCap :
               result.value =
                   (Len(sdk_list_blobs(store, call.container, call.name, k)) > 0)
        /\ Len(events) = 1 /\ events[1].prim = "list_blobs"
        /\ events[1].num_results = 1

C5_Witness ==
    /\ Returned("check_for_prefix") /\ result.status = "return"
    /\ result.value = TRUE
    /\ Len(sdk_list_blobs(store, call.container, call.name, 0)) >= 2

\* C6: the handle is set once, by a successful construction, and never
\* replaced; every SDK call goes through it; a failed construction leaves no
\* handle and nothing ever runs on it.
C6_OneHandle ==
    [][/\ hook = "ready" => (hook' = "ready" /\ connection' = connection)
       /\ hook' = "ready" => connection' # 0
       /\ hook' # "ready" => (connection' = 0 /\ events' = <<>> /\ call'.op = "")
       /\ \A i \in DOMAIN events' :
              events'[i].kind = "request" => events'[i].via = connection'
      ]_vars

C6_Witness ==
    /\ Returned("get_conn") /\ hook = "ready"
    /\ result.value # connection
    /\ connection = NewHandle(0)
    /\ \E r \in Refs : store[r] # Absent

\* The SDK primitive each forwarding method calls.
PrimOf(op) ==
    CASE op = "check_for_blob" -> "exists"
      [] op = "check_for_prefix" -> "list_blobs"
      [] op = "get_blobs_list" -> "list_blobs"
      [] op = "load_file" -> "create_blob_from_path"
      [] op = "load_string" -> "create_blob_from_text"
      [] op = "get_file" -> "get_blob_to_path"
      [] op = "read_file" -> "get_blob_to_text"

Forwarders == {"check_for_blob", "check_for_prefix", "get_blobs_list", "load_file",
               "load_string", "get_file", "read_file"}

\* C7: each of the seven forwarding methods makes exactly one SDK call; when
\* that call fails the caller gets the same error, and when it succeeds the
\* method returns; AirflowException comes from delete_file only.
C7_ForwardOnce ==
    /\ (pc = "idle" /\ call.op \in Forwarders) =>
           /\ Len(events) = 1
           /\ events[1].kind = "request" /\ events[1].prim = PrimOf(call.op)
           /\ events[1].container = call.container /\ events[1].name = call.name
           /\ IF events[1].outcome = "ok"
              THEN result.status = "return"
              ELSE /\ result.status = "raise"
                   /\ result.type = events[1].outcome
                   /\ result.value = call.name
    /\ result.type = "AirflowException" => call.op = "delete_file"

C7_Witness ==
    /\ Returned("read_file") /\ result.status = "raise"
    /\ result.type = "AzureHttpError"
    /\ Len(events) = 1

LoopEvents == SubSeq(events, 2, Len(events))

\* C9: the loop takes the deletion set in order (the listing for a prefix,
\* the one name otherwise); per entry it writes one log record naming the
\* entry and then issues the delete request for it, always with
\* delete_snapshots='include'; a normal return has done so for every entry.
C9_LogThenDelete ==
    (call.op = "delete_file") =>
        /\ \A i \in DOMAIN LoopEvents :
               LET uri == blobs_to_delete[(i + 1) \div 2]
                   e == LoopEvents[i]
               IN IF i % 2 = 1
                  THEN e = LogInfo(uri)
                  ELSE /\ e.kind = "request" /\ e.prim = "delete_blob"
                       /\ e.container = call.container /\ e.name = uri
                       /\ e.delete_snapshots = "include"
        /\ Len(blobs_to_delete) > 0 =>
               blobs_to_delete = IF call.is_prefix
                                 THEN sdk_list_blobs(store0, call.container, call.name,
                                                     LookupCap(call.kwargs))
                                 ELSE <<call.name>>
        /\ (pc = "idle" /\ result.status = "return") =>
               Len(LoopEvents) = 2 * Len(blobs_to_delete)
        /\ pc = "deleting" => Len(LoopEvents) = 2 * (idx - 1)

C9_Witness ==
    /\ Returned("delete_file") /\ result.status = "return"
    /\ Len(blobs_to_delete) >= 2 /\ "timeout" \in call.kwargs
    /\ Len(LoopEvents) = 4

\* C10 as stated: with another client acting between the steps of the call,
\* delete_file(is_prefix=False, ignore_if_missing=True) never fails for a
\* blob that is missing.
C10_IgnoreMissingAlways ==
    (Returned("delete_file") /\ ~call.is_prefix /\ call.ignore_if_missing) =>
        result.type # "AzureMissingResourceHttpError"
====
